---- MODULE Spec2Model ----
(***************************************************************************)
(* Model of pyqc's check/fix orchestration (pyqc/core.py): CheckResult,    *)
(* PyQCRunner.check_file, fix_file, check_files_parallel and               *)
(* fix_files_parallel, with the checker adapters of pyqc/checkers as the   *)
(* environment.                                                            *)
(*                                                                         *)
(* A path is modelled by its string form str(path), a sequence of          *)
(* character codes.  An optional value is <<>> (None) or <<v>>.            *)
(***************************************************************************)
EXTENDS Integers, Sequences, FiniteSets, TLC

None == <<>>
Some(v) == <<v>>

\* ---------------------------------------------------------------- bounds
MaxPaths == 2       \* longest list of paths handed to one call
MaxFaults == 1      \* tasks of one call that raise outside check_file's handlers
MaxCalls == 2       \* calls made on the same list of paths

\* ---------------------------------------------------------------- inputs
\* str(path) of the files: "10" and "2" (numeric order differs from string order)
PathSet == {<<1, 0>>, <<2>>}

RECURSIVE SeqsUpTo(_, _)
SeqsUpTo(S, n) ==
  IF n = 0 THEN {<<>>}
  ELSE LET shorter == SeqsUpTo(S, n - 1)
       IN shorter \cup {Append(s, x) : s \in {t \in shorter : Len(t) = n - 1}, x \in S}

PathLists == SeqsUpTo(PathSet, MaxPaths)

\* values of the max_workers argument; None is the default
MaxWorkersSet == {None, Some(-1), Some(0), Some(1), Some(2)}

\* values of os.cpu_count()
CpuCounts == {None, Some(1), Some(2)}

DefaultWorkers == 4

\* ------------------------------------------------------- checker adapters
\* Raw issue maps as the lint and type adapters return them.
LintRaw1 == [line |-> 1, column |-> Some(0), severity |-> "error",
             message |-> "unused import", code |-> Some("F401"), fix |-> TRUE]
LintRaw2 == [line |-> 7, severity |-> "warning", message |-> "shadowed name"]
TypeRaw1 == [filename |-> <<9>>, line |-> 3, column |-> None, severity |-> "note",
             message |-> "incompatible types", code |-> Some("assignment"),
             checker |-> "mypy"]
\* an entry of ty's JSON output, passed through as it is
TypeRaw2 == [line |-> 5, column |-> Some(4), severity |-> "hint",
             message |-> "possibly unbound", code |-> Some(""), checker |-> "ty"]

\* What a call of a checker does: it returns a value or raises an exception
\* of some class with some text.
Ok(issues) == [kind |-> "ok", issues |-> issues]
Raise(exc, text) == [kind |-> "raise", exc |-> exc, err |-> text]
Missing == Raise("FileNotFoundError", "command not found")
\* The external tool never exits on its own.
Hang == [kind |-> "hang"]

\* The timeout argument of subprocess.run in the adapters: none is passed.
SubprocessTimeout == None

\* The call of the adapter comes back, with a value or an exception.
Returns(outcome) == outcome.kind # "hang" \/ SubprocessTimeout # None

\* What the call comes back with: subprocess.run raises TimeoutExpired when
\* its timeout expires.
Settled(outcome) ==
  IF outcome.kind = "hang" THEN Raise("TimeoutExpired", "timed out") ELSE outcome

\* The classes of exception the adapters raise; all derive from Exception.
ExceptionClasses == {"FileNotFoundError", "RuntimeError", "JSONDecodeError",
                     "TimeoutExpired"}

LintOutcomes == {Ok(<<>>), Ok(<<LintRaw1, LintRaw2>>), Missing,
                 Raise("RuntimeError", "Ruff execution failed"),
                 Raise("JSONDecodeError", "Invalid JSON from ruff"), Hang}

\* Exit status of the `ruff format` subprocess, or "missing" when the
\* executable is not found.
FormatProcs == {"rc0", "rc1", "rc2", "missing", "hang"}

TypeOutcomes == {Ok(<<>>), Ok(<<TypeRaw1>>), Ok(<<TypeRaw1, TypeRaw2>>), Missing,
                 Raise("RuntimeError", "mypy execution failed"), Hang}

check_format(path, proc) ==
  CASE proc = "missing" -> Missing
    [] proc = "hang" -> Hang
    [] proc = "rc2" -> Raise("RuntimeError", "Ruff format execution failed")
    [] proc = "rc1" -> Ok(<<[type |-> "format", message |-> "File would be reformatted",
                             filename |-> path, severity |-> "info"]>>)
    [] OTHER -> Ok(<<>>)

fix_format(path, proc, dry_run) ==
  CASE proc = "missing" -> Missing
    [] proc = "hang" -> Hang
    [] proc = "rc2" -> Raise("RuntimeError", "Ruff format execution failed")
    [] OTHER -> [kind |-> "ok", value |-> (proc = "rc0" \/ (dry_run /\ proc = "rc1"))]

\* The command fix_format runs.
FixCommand(path, dry) ==
  [argv |-> <<"ruff", "format">>, path |-> path,
   flags |-> IF dry THEN <<"--check">> ELSE <<>>]

\* `ruff format` rewrites the file unless it is run with --check.
RuffFormatWrites(command, proc) ==
  proc = "rc0" /\ \A k \in 1..Len(command.flags) : command.flags[k] # "--check"

\* The behaviour of the three tools on one file.
AllProfiles == [lint : LintOutcomes, format : FormatProcs, type : TypeOutcomes]

CleanProfile == [lint |-> Ok(<<>>), format |-> "rc0", type |-> Ok(<<>>)]
IssuesProfile == [lint |-> Ok(<<LintRaw1, LintRaw2>>), format |-> "rc1",
                  type |-> Ok(<<TypeRaw1>>)]
FailingProfile == [lint |-> Raise("RuntimeError", "Ruff execution failed"),
                   format |-> "rc2",
                   type |-> Raise("RuntimeError", "mypy execution failed")]
BatchProfiles == {IssuesProfile, FailingProfile, CleanProfile}

\* ------------------------------------------------------------ CheckResult
Get(d, k, default) == IF k \in DOMAIN d THEN d[k] ELSE default

NewCheckResult(path) ==
  [path |-> path, issues |-> <<>>, checks_run |-> <<>>,
   success |-> TRUE, error_message |-> None]

\* Variant: the checker named by the raw issue wins.
MakeIssueRawChecker(path, issue_data, checker) ==
  [filename |-> Get(issue_data, "filename", path),
   line |-> Get(issue_data, "line", 0),
   column |-> Get(issue_data, "column", None),
   severity |-> Get(issue_data, "severity", "error"),
   message |-> Get(issue_data, "message", "Unknown issue"),
   code |-> Get(issue_data, "code", None),
   checker |-> Get(issue_data, "checker", checker),
   fixable |-> Get(issue_data, "fixable", FALSE)]

MakeIssue(path, issue_data, checker) ==
  [filename |-> Get(issue_data, "filename", path),
   line |-> Get(issue_data, "line", 0),
   column |-> Get(issue_data, "column", None),
   severity |-> Get(issue_data, "severity", "error"),
   message |-> Get(issue_data, "message", "Unknown issue"),
   code |-> Get(issue_data, "code", None),
   checker |-> checker,
   fixable |-> Get(issue_data, "fixable", FALSE)]

\* Variant: the new issues are put in front of those already there.
AddIssuesInFront(result, issues, checker) ==
  [result EXCEPT !.issues =
     [i \in 1..Len(issues) |-> MakeIssue(result.path, issues[i], checker)] \o @]

add_issues(result, issues, checker) ==
  [result EXCEPT !.issues =
     @ \o [i \in 1..Len(issues) |-> MakeIssue(result.path, issues[i], checker)]]

\* dict item assignment d[k] = v
SetKey(d, k, v) == [x \in DOMAIN d \cup {k} |-> IF x = k THEN v ELSE d[x]]

MarkLintFixable(issues) ==
  [i \in 1..Len(issues) |->
     IF Get(issues[i], "fix", FALSE) THEN SetKey(issues[i], "fixable", TRUE)
     ELSE issues[i]]

MarkFormatFixable(issues) ==
  [i \in 1..Len(issues) |-> SetKey(issues[i], "fixable", TRUE)]

\* --------------------------------------------------------------- check_file
CheckerOrder == <<"lint", "format", "type">>

CheckerName(c) ==
  CASE c = "lint" -> "ruff-lint"
    [] c = "format" -> "ruff-format"
    [] c = "type" -> "type-check"

\* Variant: a skipped checker is entered under its plain name.
SkippedNamePlain(c) ==
  CASE c = "lint" -> "ruff-lint"
    [] c = "format" -> "ruff-format"
    [] c = "type" -> "type-check"

SkippedName(c) ==
  CASE c = "lint" -> "ruff-lint-skipped"
    [] c = "format" -> "ruff-format-skipped"
    [] c = "type" -> "type-check-skipped"

FailurePrefix(c) ==
  CASE c = "lint" -> "Ruff lint failed"
    [] c = "format" -> "Ruff format failed"
    [] c = "type" -> "Type check failed"

NextStage(c) ==
  CASE c = "lint" -> "format"
    [] c = "format" -> "type"
    [] c = "type" -> "done"

\* What the call of checker c on path returns or raises, given the tools' behaviour.
CallChecker(profile, path, c) ==
  CASE c = "lint" -> profile.lint
    [] c = "format" -> check_format(path, profile.format)
    [] c = "type" -> profile.type

Prepared(c, issues) ==
  CASE c = "lint" -> MarkLintFixable(issues)
    [] c = "format" -> MarkFormatFixable(issues)
    [] c = "type" -> issues

\* `except Exception` catches the exception
IsException(exc) == exc \in ExceptionClasses

\* Variant: the second clause catches RuntimeError only.
InnerHandlerNarrow(exc) ==
  IF exc = "FileNotFoundError" THEN "skip"
  ELSE IF exc = "RuntimeError" THEN "fail"
  ELSE "propagate"

\* Variant: `except Exception` comes first, FileNotFoundError is never a skip.
InnerHandlerNoSkip(exc) ==
  IF IsException(exc) THEN "fail" ELSE "propagate"

\* The except clauses of one inner try block, in their order.
InnerHandler(exc) ==
  IF exc = "FileNotFoundError" THEN "skip"
  ELSE IF IsException(exc) THEN "fail"
  ELSE "propagate"

\* Variant: the message of the first failure is kept.
CheckBlockFirstError(task, c, outcome) ==
  LET result == task.result
      called == Append(task.calls, c)
  IN IF outcome.kind = "ok"
     THEN LET r == add_issues(result, Prepared(c, outcome.issues), CheckerName(c))
          IN [st |-> NextStage(c),
              result |-> [r EXCEPT !.checks_run = Append(@, CheckerName(c))],
              calls |-> called]
     ELSE CASE InnerHandler(outcome.exc) = "skip" ->
                 [st |-> NextStage(c),
                  result |-> [result EXCEPT !.checks_run = Append(@, SkippedName(c))],
                  calls |-> called]
            [] InnerHandler(outcome.exc) = "fail" ->
                 [st |-> NextStage(c),
                  result |-> [result EXCEPT
                     !.success = FALSE,
                     !.error_message =
                        IF @ = None THEN Some(<<FailurePrefix(c), outcome.err>>) ELSE @],
                  calls |-> called]
            [] OTHER ->
                 IF IsException(outcome.exc)
                 THEN [st |-> "done",
                       result |-> [result EXCEPT
                          !.success = FALSE,
                          !.error_message = Some(<<"Unexpected error", outcome.err>>)],
                       calls |-> called]
                 ELSE [st |-> "raised", result |-> result, calls |-> called]

\* Variant: check_file returns at the first checker that raises an error.
CheckBlockStopOnError(task, c, outcome) ==
  LET result == task.result
      called == Append(task.calls, c)
  IN IF outcome.kind = "ok"
     THEN LET r == add_issues(result, Prepared(c, outcome.issues), CheckerName(c))
          IN [st |-> NextStage(c),
              result |-> [r EXCEPT !.checks_run = Append(@, CheckerName(c))],
              calls |-> called]
     ELSE CASE InnerHandler(outcome.exc) = "skip" ->
                 [st |-> NextStage(c),
                  result |-> [result EXCEPT !.checks_run = Append(@, SkippedName(c))],
                  calls |-> called]
            [] InnerHandler(outcome.exc) = "fail" ->
                 [st |-> "done",
                  result |-> [result EXCEPT
                     !.success = FALSE,
                     !.error_message = Some(<<FailurePrefix(c), outcome.err>>)],
                  calls |-> called]
            [] OTHER ->
                 IF IsException(outcome.exc)
                 THEN [st |-> "done",
                       result |-> [result EXCEPT
                          !.success = FALSE,
                          !.error_message = Some(<<"Unexpected error", outcome.err>>)],
                       calls |-> called]
                 ELSE [st |-> "raised", result |-> result, calls |-> called]

\* Variant: a checker that returns sets success back to true.
CheckBlockSuccessReset(task, c, outcome) ==
  LET result == task.result
      called == Append(task.calls, c)
  IN IF outcome.kind = "ok"
     THEN LET r == add_issues(result, Prepared(c, outcome.issues), CheckerName(c))
          IN [st |-> NextStage(c),
              result |-> [r EXCEPT !.checks_run = Append(@, CheckerName(c)),
                                   !.success = TRUE],
              calls |-> called]
     ELSE CASE InnerHandler(outcome.exc) = "skip" ->
                 [st |-> NextStage(c),
                  result |-> [result EXCEPT !.checks_run = Append(@, SkippedName(c))],
                  calls |-> called]
            [] InnerHandler(outcome.exc) = "fail" ->
                 [st |-> NextStage(c),
                  result |-> [result EXCEPT
                     !.success = FALSE,
                     !.error_message = Some(<<FailurePrefix(c), outcome.err>>)],
                  calls |-> called]
            [] OTHER ->
                 IF IsException(outcome.exc)
                 THEN [st |-> "done",
                       result |-> [result EXCEPT
                          !.success = FALSE,
                          !.error_message = Some(<<"Unexpected error", outcome.err>>)],
                       calls |-> called]
                 ELSE [st |-> "raised", result |-> result, calls |-> called]

\* One of the three try blocks of check_file (inside the outer try), applied
\* to the outcome of its checker: the task after the block.
CheckBlock(task, c, outcome) ==
  LET result == task.result
      called == Append(task.calls, c)
  IN IF outcome.kind = "ok"
     THEN LET r == add_issues(result, Prepared(c, outcome.issues), CheckerName(c))
          IN [st |-> NextStage(c),
              result |-> [r EXCEPT !.checks_run = Append(@, CheckerName(c))],
              calls |-> called]
     ELSE CASE InnerHandler(outcome.exc) = "skip" ->
                 [st |-> NextStage(c),
                  result |-> [result EXCEPT !.checks_run = Append(@, SkippedName(c))],
                  calls |-> called]
            [] InnerHandler(outcome.exc) = "fail" ->
                 [st |-> NextStage(c),
                  result |-> [result EXCEPT
                     !.success = FALSE,
                     !.error_message = Some(<<FailurePrefix(c), outcome.err>>)],
                  calls |-> called]
            [] OTHER ->
                 \* the outer `except Exception`, or out of check_file
                 IF IsException(outcome.exc)
                 THEN [st |-> "done",
                       result |-> [result EXCEPT
                          !.success = FALSE,
                          !.error_message = Some(<<"Unexpected error", outcome.err>>)],
                       calls |-> called]
                 ELSE [st |-> "raised", result |-> result, calls |-> called]

\* Variant: the value fix_format returns is not looked at.
FixBlockValueIgnored(task, outcome) ==
  LET result == task.result
      called == Append(task.calls, "fix")
  IN IF outcome.kind = "ok"
     THEN [st |-> "done",
           result |-> [result EXCEPT !.checks_run = Append(@, "ruff-format-fix")],
           calls |-> called]
     ELSE CASE InnerHandler(outcome.exc) = "skip" ->
                 [st |-> "done",
                  result |-> [result EXCEPT
                     !.checks_run = Append(@, "ruff-format-fix-skipped")],
                  calls |-> called]
            [] InnerHandler(outcome.exc) = "fail" ->
                 [st |-> "done",
                  result |-> [result EXCEPT
                     !.success = FALSE,
                     !.error_message = Some(<<"Ruff format fix failed", outcome.err>>)],
                  calls |-> called]
            [] OTHER ->
                 IF IsException(outcome.exc)
                 THEN [st |-> "done",
                       result |-> [result EXCEPT
                          !.success = FALSE,
                          !.error_message =
                             Some(<<"Unexpected error during fix", outcome.err>>)],
                       calls |-> called]
                 ELSE [st |-> "raised", result |-> result, calls |-> called]

\* The try block of fix_file (inside the outer try), applied to the outcome
\* of fix_format: the task after the block.
FixBlock(task, outcome) ==
  LET result == task.result
      called == Append(task.calls, "fix")
  IN IF outcome.kind = "ok"
     THEN [st |-> "done",
           result |-> IF outcome.value
                      THEN [result EXCEPT !.checks_run = Append(@, "ruff-format-fix")]
                      ELSE [result EXCEPT
                              !.success = FALSE,
                              !.error_message = Some(<<"Ruff format fix failed">>)],
           calls |-> called]
     ELSE CASE InnerHandler(outcome.exc) = "skip" ->
                 [st |-> "done",
                  result |-> [result EXCEPT
                     !.checks_run = Append(@, "ruff-format-fix-skipped")],
                  calls |-> called]
            [] InnerHandler(outcome.exc) = "fail" ->
                 [st |-> "done",
                  result |-> [result EXCEPT
                     !.success = FALSE,
                     !.error_message = Some(<<"Ruff format fix failed", outcome.err>>)],
                  calls |-> called]
            [] OTHER ->
                 IF IsException(outcome.exc)
                 THEN [st |-> "done",
                       result |-> [result EXCEPT
                          !.success = FALSE,
                          !.error_message =
                             Some(<<"Unexpected error during fix", outcome.err>>)],
                       calls |-> called]
                 ELSE [st |-> "raised", result |-> result, calls |-> called]

\* ------------------------------------------------- severity counts, reports
Severities == {"error", "warning", "info", "note"}

ZeroCounts == [error |-> 0, warning |-> 0, info |-> 0, note |-> 0]

\* the loop of get_issue_count_by_severity over the issues left
RECURSIVE CountIssues(_, _)
CountIssues(issues, counts) ==
  IF issues = <<>> THEN counts
  ELSE LET severity == Head(issues).severity
       IN CountIssues(Tail(issues),
            IF severity \in DOMAIN counts
            THEN [counts EXCEPT ![severity] = @ + 1]
            ELSE [counts EXCEPT !["error"] = @ + 1])

\* Variant: an issue of unknown severity is not counted.
GetIssueCountKnownOnly(result) ==
  [CountIssues(result.issues, ZeroCounts) EXCEPT
     !.error = Cardinality({k \in 1..Len(result.issues) :
                              result.issues[k].severity = "error"})]

get_issue_count_by_severity(result) == CountIssues(result.issues, ZeroCounts)

\* CheckResult.to_dict
ResultToDict(result) ==
  [path |-> result.path, issues |-> result.issues, checks_run |-> result.checks_run,
   success |-> result.success, error_message |-> result.error_message,
   summary |-> get_issue_count_by_severity(result)]

\* sum(len(result.issues) for result in results)
RECURSIVE TotalIssues(_)
TotalIssues(rs) ==
  IF rs = <<>> THEN 0 ELSE Len(Head(rs).issues) + TotalIssues(Tail(rs))

\* Variant: every file is counted as successful.
SuccessfulFilesAll(rs) == Len(rs)

\* sum(1 for result in results if result.success)
RECURSIVE SuccessfulFiles(_)
SuccessfulFiles(rs) ==
  IF rs = <<>> THEN 0
  ELSE (IF Head(rs).success THEN 1 ELSE 0) + SuccessfulFiles(Tail(rs))

\* sum(1 for result in results if not result.success)
RECURSIVE FailedFiles(_)
FailedFiles(rs) ==
  IF rs = <<>> THEN 0
  ELSE (IF Head(rs).success THEN 0 ELSE 1) + FailedFiles(Tail(rs))

\* Variant: the counts of a result replace the totals instead of adding to them.
AddCountsOverwrite(total, counts) == counts

\* severity_counts[severity] += count, for every severity
AddCounts(total, counts) ==
  [severity \in DOMAIN total |-> total[severity] + counts[severity]]

\* the aggregation loop of the reports over the results left
RECURSIVE AggregateCounts(_, _)
AggregateCounts(rs, total) ==
  IF rs = <<>> THEN total
  ELSE AggregateCounts(Tail(rs), AddCounts(total, get_issue_count_by_severity(Head(rs))))

generate_json_report(rs) ==
  [summary |-> [files_checked |-> Len(rs),
                successful_files |-> SuccessfulFiles(rs),
                total_issues |-> TotalIssues(rs),
                severity_counts |-> AggregateCounts(rs, ZeroCounts)],
   results |-> [k \in 1..Len(rs) |-> ResultToDict(rs[k])]]

\* truth value of an optional int or str: None, 0 and "" are false
Truthy(opt, zero) == opt # None /\ opt[1] # zero

\* Variant: the annotation carries the issue's severity.
AnnotationTypeSeverity(severity) ==
  IF severity \in {"error", "warning"} THEN severity ELSE "notice"

AnnotationType(severity) == IF severity = "error" THEN "error" ELSE "warning"

\* [checker] or [checker:code]
CheckerInfo(issue) ==
  IF Truthy(issue.code, "") THEN <<issue.checker, issue.code[1]>> ELSE <<issue.checker>>

\* ::{type} file=..,line=..[,col=..]::{message} [checker[:code]]
Annotation(issue) ==
  [type |-> AnnotationType(issue.severity),
   file |-> issue.filename, line |-> issue.line,
   col |-> IF Truthy(issue.column, 0) THEN issue.column ELSE None,
   message |-> issue.message, checker_info |-> CheckerInfo(issue)]

\* filename:line[:column]: severity: message [checker[:code]]
TextLine(issue) ==
  [file |-> issue.filename, line |-> issue.line,
   column |-> IF Truthy(issue.column, 0) THEN issue.column ELSE None,
   severity |-> issue.severity,
   message |-> issue.message, checker_info |-> CheckerInfo(issue)]

\* The lines of the report, one per issue, result after result; the report
\* is their join with "\n", the empty string when there is none.
RECURSIVE generate_github_actions_report(_)
generate_github_actions_report(rs) ==
  IF rs = <<>> THEN <<>>
  ELSE [k \in 1..Len(Head(rs).issues) |-> Annotation(Head(rs).issues[k])]
       \o generate_github_actions_report(Tail(rs))

RECURSIVE TextIssueLines(_)
TextIssueLines(rs) ==
  IF rs = <<>> THEN <<>>
  ELSE [k \in 1..Len(Head(rs).issues) |-> TextLine(Head(rs).issues[k])]
       \o TextIssueLines(Tail(rs))

generate_text_report(rs) ==
  IF rs = <<>> THEN [message |-> "No files checked."]
  ELSE LET counts == AggregateCounts(rs, ZeroCounts)
       IN [files_checked |-> Len(rs),
           successful |-> SuccessfulFiles(rs),
           total_issues |-> TotalIssues(rs),
           by_severity |-> [severity \in {x \in Severities : counts[x] > 0} |->
                              counts[severity]],
           issues |-> TextIssueLines(rs)]

OutputFormats == {"text", "json", "github"}

\* Variant: issues are looked at before failures.
ExitCodeIssuesFirst(rs) ==
  IF TotalIssues(rs) > 0 THEN 1 ELSE IF FailedFiles(rs) > 0 THEN 2 ELSE 0

\* the exit code of the check command
ExitCode(rs) ==
  IF FailedFiles(rs) > 0 THEN 2 ELSE IF TotalIssues(rs) > 0 THEN 1 ELSE 0

\* ------------------------------------------------------ performance metrics
\* Values of result.execution_time = time.time() - start_time, in clock ticks.
Durations == {0, 1}

\* {}
EmptyDict == [k \in {} |-> 0]

\* a / b: the quotient as a fraction, or the ZeroDivisionError it raises
Quotient(a, b) ==
  IF b = 0 THEN [raised |-> "ZeroDivisionError"] ELSE [num |-> a, den |-> b]

\* Variant: the throughput is computed without looking at the total time.
FilesPerSecondUnguarded(n, total_time) == Quotient(n, total_time)

\* len(results) / total_time if total_time > 0 else 0
FilesPerSecond(n, total_time) ==
  IF total_time > 0 THEN Quotient(n, total_time) ELSE [num |-> 0, den |-> 1]

\* sum(result.execution_time for result in results)
RECURSIVE TotalTime(_)
TotalTime(timed) ==
  IF timed = <<>> THEN 0 ELSE Head(timed).execution_time + TotalTime(Tail(timed))

\* get_performance_metrics on results that carry their execution_time, for a
\* runner whose config.parallel is enabled: the dict returned, or what is raised.
get_performance_metrics(timed, enabled) ==
  IF timed = <<>> THEN EmptyDict
  ELSE LET total_time == TotalTime(timed)
           average == Quotient(total_time, Len(timed))
           throughput == FilesPerSecond(Len(timed), total_time)
       IN IF "raised" \in DOMAIN average THEN average
          ELSE IF "raised" \in DOMAIN throughput THEN throughput
          ELSE [total_files |-> Len(timed),
                successful_files |-> SuccessfulFiles(timed),
                failed_files |-> FailedFiles(timed),
                total_execution_time |-> total_time,
                average_time_per_file |-> average,
                parallel_enabled |-> enabled,
                files_per_second |-> throughput]

\* ------------------------------------------------------- sort by str(path)
RECURSIVE StrLess(_, _)
StrLess(s, t) ==
  IF s = <<>> THEN t # <<>>
  ELSE IF t = <<>> THEN FALSE
  ELSE IF s[1] # t[1] THEN s[1] < t[1]
  ELSE StrLess(Tail(s), Tail(t))

RECURSIVE InsertByPath(_, _)
InsertByPath(r, s) ==
  IF s = <<>> THEN <<r>>
  ELSE IF StrLess(r.path, s[1].path) THEN <<r>> \o s
  ELSE <<s[1]>> \o InsertByPath(r, Tail(s))

\* Variant: the list is returned in collection order.
SortByPathOmitted(rs) == rs

\* list.sort(key=lambda r: str(r.path)): stable
RECURSIVE SortByPath(_)
SortByPath(rs) ==
  IF rs = <<>> THEN <<>>
  ELSE InsertByPath(rs[Len(rs)], SortByPath(SubSeq(rs, 1, Len(rs) - 1)))

\* ------------------------------------------------------------------ state
VARIABLES
  parallel,     \* config.parallel of the runner
  behav,        \* the tools' behaviour on each file (deterministic checkers)
  op,           \* "check": check_files_parallel, "fix": fix_files_parallel
  paths,        \* argument paths
  dry_run,      \* argument dry_run of fix_files_parallel
  max_workers,  \* argument max_workers
  cpu_count,    \* what os.cpu_count() returns
  pc,           \* "called", "sequential", "pool", "returned", "raised"
  poolSize,     \* max_workers of the ThreadPoolExecutor
  tasks,        \* one task per position of paths: stage, CheckResult, checker calls
  collected,    \* positions whose future the collection loop has consumed
  results,      \* the list results, the returned list once pc = "returned"
  faults,       \* tasks of this call that raised outside the handlers
  ncalls,       \* calls made so far on this list of paths
  prev,         \* mode and returned list of the previous call, or None
  report,       \* what the check command printed and its exit code, or None
  formatRuns,   \* the runs of `ruff format` made by fix_format
  metrics       \* what get_performance_metrics gave for the returned list, or None

vars == <<parallel, behav, op, paths, dry_run, max_workers, cpu_count, pc, poolSize,
          tasks, collected, results, faults, ncalls, prev, report, formatRuns,
          metrics>>

inputs == <<behav, op, paths, dry_run, max_workers, cpu_count>>

Range(s) == {s[i] : i \in 1..Len(s)}

Min(a, b) == IF a < b THEN a ELSE b

PendingTask == [st |-> "pending", result |-> None, calls |-> <<>>]

\* The behaviours of the tools considered for file p: any for a single file,
\* those of BatchProfiles for the files of a batch; the formatter run by
\* fix_file draws its exit status when it is run.
ProfilesFor(p) ==
  IF p \notin Range(paths) \/ op = "fix" THEN {CleanProfile}
  ELSE IF Len(paths) > 1 THEN BatchProfiles
  ELSE AllProfiles

Init ==
  /\ parallel \in BOOLEAN
  /\ op \in {"check", "fix"}
  /\ paths \in PathLists
  /\ dry_run \in BOOLEAN
  /\ (op = "check" => ~dry_run)
  /\ max_workers \in MaxWorkersSet
  /\ cpu_count \in CpuCounts
  /\ (cpu_count # None => parallel /\ max_workers = None)
  /\ behav \in [PathSet -> UNION {ProfilesFor(p) : p \in PathSet}]
  /\ \A p \in PathSet : behav[p] \in ProfilesFor(p)
  /\ pc = "called"
  /\ poolSize = 0
  /\ tasks = <<>>
  /\ collected = {}
  /\ results = <<>>
  /\ faults = 0
  /\ ncalls = 1
  /\ prev = None
  /\ report = None
  /\ formatRuns = {}
  /\ metrics = None

\* ------------------------------------------------------------------ steps
\* Variant: one worker per path, whatever the argument.
WorkersPerPath == IF max_workers # None /\ max_workers[1] <= 0
                  THEN max_workers[1] ELSE Len(paths)

\* max_workers = min(len(paths), os.cpu_count() or 4) when the argument is None
Workers ==
  IF max_workers = None
  THEN Min(Len(paths), IF cpu_count = None \/ cpu_count = Some(0)
                       THEN DefaultWorkers ELSE cpu_count[1])
  ELSE max_workers[1]

\* check_files_parallel / fix_files_parallel up to the end of the submit loop
Enter ==
  /\ pc = "called"
  /\ IF paths = <<>>
     THEN /\ pc' = "returned"
          /\ UNCHANGED <<poolSize, tasks,
                 metrics>>
     ELSE IF ~parallel
     THEN /\ pc' = "sequential"
          /\ tasks' = [i \in 1..Len(paths) |-> PendingTask]
          /\ UNCHANGED poolSize
     ELSE IF Workers <= 0
     THEN \* ThreadPoolExecutor(max_workers) raises ValueError
          /\ pc' = "raised"
          /\ UNCHANGED <<poolSize, tasks,
                 metrics>>
     ELSE /\ pc' = "pool"
          /\ poolSize' = Workers
          /\ tasks' = [i \in 1..Len(paths) |-> PendingTask]
  /\ UNCHANGED <<parallel, inputs, collected, results, faults, ncalls, prev, report, formatRuns,
                 metrics>>

Running(ts) == {i \in 1..Len(ts) : ts[i].st \in {"lint", "format", "type", "fix"}}

Finished(ts) == {i \in 1..Len(ts) : ts[i].st \in {"done", "raised"}}

\* Variant: any pending task may be taken up at any time.
CanStartUnordered(i) ==
  /\ pc \in {"sequential", "pool"}
  /\ i \in 1..Len(tasks)
  /\ tasks[i].st = "pending"

\* Task i may be taken up: in the list comprehension once the tasks before it
\* have returned, in the pool when it is the head of the work queue and a
\* worker is free.
CanStart(i) ==
  /\ pc \in {"sequential", "pool"}
  /\ i \in 1..Len(tasks)
  /\ tasks[i].st = "pending"
  /\ \A j \in 1..(i - 1) : tasks[j].st # "pending"
  /\ IF pc = "sequential"
     THEN \A j \in 1..(i - 1) : tasks[j].st = "done"
     ELSE Cardinality(Running(tasks)) < poolSize

\* Variant: the runner keeps one CheckResult per path and fills it again.
StartTaskReusedResult(i) ==
  /\ CanStart(i)
  /\ LET earlier == {j \in 1..Len(tasks) : tasks[j].st = "done" /\ paths[j] = paths[i]}
     IN tasks' = [tasks EXCEPT ![i] =
          [st |-> IF op = "check" THEN "lint" ELSE "fix",
           result |-> IF earlier = {} THEN NewCheckResult(paths[i])
                      ELSE tasks[CHOOSE j \in earlier : TRUE].result,
           calls |-> <<>>]]
  /\ UNCHANGED <<parallel, inputs, pc, poolSize, collected, results, faults, ncalls, prev,
                 report, formatRuns,
                 metrics>>

\* check_file / fix_file up to its first try block
StartTask(i) ==
  /\ CanStart(i)
  /\ tasks' = [tasks EXCEPT ![i] =
       [st |-> IF op = "check" THEN "lint" ELSE "fix",
        result |-> NewCheckResult(paths[i]), calls |-> <<>>]]
  /\ UNCHANGED <<parallel, inputs, pc, poolSize, collected, results, faults, ncalls, prev, report, formatRuns,
                 metrics>>

\* The task raises before it reaches a try block: the future holds the
\* exception; in the list comprehension the exception leaves the call.
TaskFault(i) ==
  /\ CanStart(i)
  /\ faults < MaxFaults
  /\ faults' = faults + 1
  /\ tasks' = [tasks EXCEPT ![i].st = "raised"]
  /\ pc' = IF pc = "sequential" THEN "raised" ELSE pc
  /\ UNCHANGED <<parallel, inputs, poolSize, collected, results, ncalls, prev, report, formatRuns,
                 metrics>>

\* The task has run to its end.  In the list comprehension its value is
\* appended, or its exception leaves the call; in the pool the future holds it.
AfterTask(t) ==
  /\ results' = IF pc = "sequential" /\ t.st = "done"
                THEN Append(results, t.result) ELSE results
  /\ pc' = IF pc = "sequential" /\ t.st = "raised" THEN "raised" ELSE pc

\* Variant: the CheckResult being filled is an attribute of the runner, which
\* every running task writes.
StepCheckShared(i) ==
  /\ pc \in {"sequential", "pool"}
  /\ i \in 1..Len(tasks)
  /\ tasks[i].st \in {"lint", "format", "type"}
  /\ LET c == tasks[i].st
         outcome == CallChecker(behav[paths[i]], paths[i], c)
         t == CheckBlock(tasks[i], c, Settled(outcome))
     IN /\ Returns(outcome)
        /\ tasks' = [j \in 1..Len(tasks) |->
              IF j = i THEN t
              ELSE IF tasks[j].st \in {"lint", "format", "type"}
              THEN [tasks[j] EXCEPT !.result = t.result]
              ELSE tasks[j]]
        /\ AfterTask(t)
  /\ UNCHANGED <<parallel, inputs, poolSize, collected, faults, ncalls, prev, report,
                 formatRuns,
                 metrics>>

\* One try block of check_file: call the checker, handle what it does.
StepCheck(i) ==
  /\ pc \in {"sequential", "pool"}
  /\ i \in 1..Len(tasks)
  /\ tasks[i].st \in {"lint", "format", "type"}
  /\ LET c == tasks[i].st
         outcome == CallChecker(behav[paths[i]], paths[i], c)
         t == CheckBlock(tasks[i], c, Settled(outcome))
     IN /\ Returns(outcome)
        /\ tasks' = [tasks EXCEPT ![i] = t]
        /\ AfterTask(t)
  /\ UNCHANGED <<parallel, inputs, poolSize, collected, faults, ncalls, prev, report, formatRuns,
                 metrics>>

\* Variant: fix_file is called without dry_run and takes its default.
FixFileDryRunDefault == FALSE

\* The dry_run argument fix_files_parallel hands to fix_file.
FixFileDryRun == dry_run

\* The try block of fix_file: call fix_format, handle what it does.
StepFix(i) ==
  /\ pc \in {"sequential", "pool"}
  /\ i \in 1..Len(tasks)
  /\ tasks[i].st = "fix"
  /\ \E proc \in FormatProcs :
       LET outcome == fix_format(paths[i], proc, FixFileDryRun)
           command == FixCommand(paths[i], FixFileDryRun)
           t == FixBlock(tasks[i], Settled(outcome))
       IN /\ Returns(outcome)
          /\ tasks' = [tasks EXCEPT ![i] = t]
          /\ formatRuns' = formatRuns \cup
               {[command |-> command, proc |-> proc,
                  wrote |-> RuffFormatWrites(command, proc)]}
          /\ AfterTask(t)
  /\ UNCHANGED <<parallel, inputs, poolSize, collected, faults, ncalls, prev, report,
                 metrics>>

\* Variant: the failed result is made for the last path submitted.
FailedResultLastPath(path) ==
  [NewCheckResult(paths[Len(paths)]) EXCEPT
     !.success = FALSE, !.error_message = Some(<<"Parallel execution failed">>)]

FailedResult(path) ==
  [NewCheckResult(path) EXCEPT !.success = FALSE,
                               !.error_message = Some(<<"Parallel execution failed">>)]

\* Variant: a future that raised is consumed without a result.
CollectDropFailed(i) ==
  /\ pc = "pool"
  /\ i \in Finished(tasks) \ collected
  /\ collected' = collected \cup {i}
  /\ results' = IF tasks[i].st = "done" THEN Append(results, tasks[i].result)
                ELSE results
  /\ UNCHANGED <<parallel, inputs, pc, poolSize, tasks, faults, ncalls, prev, report, formatRuns,
                 metrics>>

\* Variant: the k-th future to complete is paired with the k-th path.
CollectByPosition(i) ==
  /\ pc = "pool"
  /\ i \in Finished(tasks) \ collected
  /\ collected' = collected \cup {i}
  /\ results' = Append(results,
       IF tasks[i].st = "done"
       THEN [tasks[i].result EXCEPT !.path = paths[Len(results) + 1]]
       ELSE FailedResult(paths[Len(results) + 1]))
  /\ UNCHANGED <<parallel, inputs, pc, poolSize, tasks, faults, ncalls, prev, report, formatRuns,
                 metrics>>

\* One iteration of `for future in as_completed(future_to_path)`
Collect(i) ==
  /\ pc = "pool"
  /\ i \in Finished(tasks) \ collected
  /\ collected' = collected \cup {i}
  /\ results' = Append(results, IF tasks[i].st = "done" THEN tasks[i].result
                                ELSE FailedResult(paths[i]))
  /\ UNCHANGED <<parallel, inputs, pc, poolSize, tasks, faults, ncalls, prev, report, formatRuns,
                 metrics>>

\* Variant: the call returns as soon as one future has been consumed.
FinishEarly ==
  /\ pc = "pool"
  /\ collected # {}
  /\ results' = SortByPath(results)
  /\ pc' = "returned"
  /\ UNCHANGED <<parallel, inputs, poolSize, tasks, collected, faults, ncalls, prev,
                 report, formatRuns,
                 metrics>>

\* The loop is exhausted: leave the with block, sort, return.
Finish ==
  /\ pc = "pool"
  /\ collected = 1..Len(tasks)
  /\ results' = SortByPath(results)
  /\ pc' = "returned"
  /\ UNCHANGED <<parallel, inputs, poolSize, tasks, collected, faults, ncalls, prev, report, formatRuns,
                 metrics>>

\* The list comprehension is complete: return it.
SeqReturn ==
  /\ pc = "sequential"
  /\ \A i \in 1..Len(tasks) : tasks[i].st = "done"
  /\ pc' = "returned"
  /\ UNCHANGED <<parallel, inputs, poolSize, tasks, collected, results, faults, ncalls, prev, report, formatRuns,
                 metrics>>

\* The check command renders the results it obtained and exits.  The command
\* does not ask for the metrics.
Report ==
  /\ pc = "returned"
  /\ op = "check"
  /\ report = None
  /\ metrics = None
  /\ \E output \in OutputFormats :
       report' = Some([output |-> output,
                       body |-> CASE output = "json" -> generate_json_report(results)
                                  [] output = "github" ->
                                       generate_github_actions_report(results)
                                  [] OTHER -> generate_text_report(results),
                       exit_code |-> ExitCode(results)])
  /\ UNCHANGED <<parallel, inputs, pc, poolSize, tasks, collected, results, faults,
                 ncalls, prev, formatRuns,
                 metrics>>

\* The results with the execution_time their tasks measured.  A result made
\* for a future that raised keeps the 0.0 of CheckResult.__init__.
WithTimes(rs, times) ==
  [k \in 1..Len(rs) |->
     SetKey(rs[k], "execution_time",
            IF rs[k].error_message = Some(<<"Parallel execution failed">>)
            THEN 0 ELSE times[k])]

\* A caller of the runner asks it for the metrics of the list it got back.
Metrics ==
  /\ pc = "returned"
  /\ metrics = None
  /\ report = None
  /\ \E times \in [1..Len(results) -> Durations] :
       metrics' = Some(get_performance_metrics(WithTimes(results, times), parallel))
  /\ UNCHANGED <<parallel, inputs, pc, poolSize, tasks, collected, results, faults,
                 ncalls, prev, report, formatRuns>>

\* The caller checks the same files again with a runner of the other mode.
Recall ==
  /\ pc = "returned"
  /\ op = "check"
  /\ paths # <<>>
  /\ ncalls < MaxCalls
  /\ ncalls' = ncalls + 1
  /\ prev' = Some([parallel |-> parallel, results |-> results])
  /\ parallel' = ~parallel
  /\ pc' = "called"
  /\ poolSize' = 0
  /\ tasks' = <<>>
  /\ collected' = {}
  /\ results' = <<>>
  /\ faults' = 0
  /\ report' = None
  /\ metrics' = None
  /\ UNCHANGED <<inputs, formatRuns>>

Next ==
  \/ Enter
  \/ \E i \in 1..MaxPaths + 1 : StartTask(i)
  \/ \E i \in 1..MaxPaths + 1 : TaskFault(i)
  \/ \E i \in 1..MaxPaths + 1 : StepCheck(i)
  \/ \E i \in 1..MaxPaths + 1 : StepFix(i)
  \/ \E i \in 1..MaxPaths + 1 : Collect(i)
  \/ Finish
  \/ SeqReturn
  \/ Report
  \/ Metrics
  \/ Recall

Spec == Init /\ [][Next]_vars

\* ================================================================ claims
Sorted(rs) == \A i \in 1..(Len(rs) - 1) : ~StrLess(rs[i + 1].path, rs[i].path)

Count(seq, x) == Cardinality({i \in 1..Len(seq) : seq[i] = x})

ResultPaths(rs) == [i \in 1..Len(rs) |-> rs[i].path]

IsSynthetic(r) == r.error_message = Some(<<"Parallel execution failed">>)

Outcome(p, c) == CallChecker(behav[p], p, c)

\* The checker raises an error other than tool-missing on p.
Fails(p, c) == Outcome(p, c).kind = "raise" /\ Outcome(p, c).exc # "FileNotFoundError"

ToolMissing(p, c) == Outcome(p, c).kind = "raise" /\ Outcome(p, c).exc = "FileNotFoundError"

Checkers == {"lint", "format", "type"}

IssuesOf(r, name) == {k \in 1..Len(r.issues) : r.issues[k].checker = name}

\* C1 as stated: in either execution mode the list returned by
\* check_files_parallel / fix_files_parallel is non-decreasing by str(path).
C1_SortedInEitherMode == pc = "returned" => Sorted(results)

\* C1 amended: in parallel mode the list returned by check_files_parallel /
\* fix_files_parallel is non-decreasing by str(path), for every list of paths
\* and every completion order; in sequential mode the list is in input order.
C1_SortedInParallelMode ==
  pc = "returned" =>
    IF parallel THEN Sorted(results) ELSE ResultPaths(results) = paths

C1_Witness ==
  /\ pc = "returned" /\ parallel /\ Len(results) = 2
  /\ StrLess(paths[2], paths[1])
  /\ results[1].path = paths[2]

\* C2: whenever check_files_parallel returns, in either mode, the list has
\* exactly len(paths) results: for the empty list, for a list with the same
\* path twice, and when every checker raises for every file.
C2_OneResultPerPath ==
  (pc = "returned" /\ op = "check") => Len(results) = Len(paths)

C2_Witness ==
  /\ pc = "returned" /\ op = "check" /\ parallel
  /\ Len(paths) = 2 /\ paths[1] = paths[2]
  /\ \A c \in Checkers : Fails(paths[1], c)
  /\ Len(results) = 2

\* C3: every path is the path of as many returned results as it occurs in the
\* input, and the synthetic failed results for a path are as many as the
\* tasks of that path whose future raised.
C3_PathsPreserved ==
  (pc = "returned" /\ op = "check") =>
    \A p \in PathSet :
      /\ Count(ResultPaths(results), p) = Count(paths, p)
      /\ parallel =>
           Cardinality({k \in 1..Len(results) :
                          results[k].path = p /\ IsSynthetic(results[k])})
           = Cardinality({i \in 1..Len(tasks) :
                            paths[i] = p /\ tasks[i].st = "raised"})

C3_Witness ==
  /\ pc = "returned" /\ op = "check" /\ parallel
  /\ Len(paths) = 2 /\ paths[1] # paths[2]
  /\ tasks[1].st = "raised" /\ tasks[2].st = "done"
  /\ \E k \in 1..2 : results[k].path = paths[1] /\ ~results[k].success
                     /\ IsSynthetic(results[k])

PathIssues(rs) == [i \in 1..Len(rs) |-> <<rs[i].path, rs[i].issues>>]

\* C4: with deterministic checkers and no task raising outside check_file's
\* handlers, the parallel and the sequential run over the same non-empty list
\* give the same set of (path, issues) pairs, and the same list of them once
\* both are sorted by path string.
C4_ParallelEqualsSequential ==
  (/\ pc = "returned" /\ prev # None
   /\ \A k \in 1..Len(results) : ~IsSynthetic(results[k])
   /\ \A k \in 1..Len(prev[1].results) : ~IsSynthetic(prev[1].results[k]))
  => /\ prev[1].parallel # parallel
     /\ Range(PathIssues(results)) = Range(PathIssues(prev[1].results))
     /\ PathIssues(SortByPath(results)) = PathIssues(SortByPath(prev[1].results))

C4_Witness ==
  /\ pc = "returned" /\ prev # None /\ parallel
  /\ Len(results) = 2 /\ Len(prev[1].results) = 2
  /\ \A k \in 1..2 : ~IsSynthetic(results[k])
  /\ results[1].path # results[2].path
  /\ results[1].issues # results[2].issues
  /\ PathIssues(results) # PathIssues(prev[1].results)

\* check_file on p alone, block after block.
IsolatedCheckFile(p) ==
  LET t0 == [st |-> "lint", result |-> NewCheckResult(p), calls |-> <<>>]
      t1 == CheckBlock(t0, "lint", behav[p].lint)
      t2 == CheckBlock(t1, "format", check_format(p, behav[p].format))
      t3 == CheckBlock(t2, "type", behav[p].type)
  IN t3.result

LastFailing(p) ==
  IF Fails(p, "type") THEN "type" ELSE IF Fails(p, "format") THEN "format" ELSE "lint"

\* C5: in a parallel run where checkers raise for one path P only (and no
\* task raises outside check_file's handlers), exactly the results for P have
\* success = false, with an error_message carrying the text of the error
\* raised for P; every other result has success = true and the issues and
\* checks_run of check_file run on its path alone.
C5_FailureIsolated ==
  (pc = "returned" /\ parallel /\ op = "check" /\ faults = 0) =>
    \A P \in Range(paths) :
      {p \in Range(paths) : \E c \in Checkers : Fails(p, c)} = {P} =>
        \A k \in 1..Len(results) :
          IF results[k].path = P
          THEN /\ ~results[k].success
               /\ results[k].error_message # None
               /\ results[k].error_message[1][2] = Outcome(P, LastFailing(P)).err
          ELSE /\ results[k].success
               /\ results[k].error_message = None
               /\ results[k].issues = IsolatedCheckFile(results[k].path).issues
               /\ results[k].checks_run = IsolatedCheckFile(results[k].path).checks_run

C5_Witness ==
  /\ pc = "returned" /\ parallel /\ op = "check" /\ faults = 0
  /\ Len(results) = 2
  /\ \E c \in Checkers : Fails(results[2].path, c)
  /\ \A c \in Checkers : ~Fails(results[1].path, c)
  /\ ~results[2].success /\ results[1].success
  /\ Len(results[1].issues) > 0

\* C6: no outcome of the three checkers makes check_file raise; when a
\* checker raises an error other than tool-missing, success is false, and
\* every checker is still called in order, a checker that returns having its
\* issues and its checks_run entry recorded.
C6_CheckerErrorsContained ==
  op = "check" =>
    \A i \in 1..Len(tasks) :
      LET t == tasks[i]
          p == paths[i]
      IN /\ t.st = "raised" => t.calls = <<>>
         /\ t.st = "done" => t.calls = CheckerOrder
         /\ \A k \in 1..Len(t.calls) :
              /\ t.calls[k] = CheckerOrder[k]
              /\ Fails(p, t.calls[k]) => ~t.result.success
              /\ Outcome(p, t.calls[k]).kind = "ok" =>
                   /\ Count(t.result.checks_run, CheckerName(t.calls[k])) = 1
                   /\ Cardinality(IssuesOf(t.result, CheckerName(t.calls[k])))
                      = Len(Outcome(p, t.calls[k]).issues)

C6_Witness ==
  /\ op = "check"
  /\ \E i \in 1..Len(tasks) :
       /\ tasks[i].st = "done"
       /\ Fails(paths[i], "lint") /\ Outcome(paths[i], "lint").exc = "JSONDecodeError"
       /\ Outcome(paths[i], "type").kind = "ok"
       /\ ~tasks[i].result.success
       /\ Cardinality(IssuesOf(tasks[i].result, "type-check")) > 0

\* C7: a checker that signals tool-missing leaves '<name>-skipped' in
\* checks_run and no issue, the later checkers are still called, and when no
\* checker raises another error the result has success = true and
\* error_message = None, also when all three tools are missing.
C7_ToolMissingIsSkip ==
  op = "check" =>
    \A i \in 1..Len(tasks) :
      LET t == tasks[i]
          p == paths[i]
      IN t.st = "done" =>
           /\ t.calls = CheckerOrder
           /\ \A c \in Checkers :
                ToolMissing(p, c) =>
                  /\ Count(t.result.checks_run, SkippedName(c)) = 1
                  /\ Count(t.result.checks_run, CheckerName(c)) = 0
                  /\ IssuesOf(t.result, CheckerName(c)) = {}
           /\ (\A c \in Checkers : ~Fails(p, c)) =>
                t.result.success /\ t.result.error_message = None

C7_Witness ==
  /\ op = "check"
  /\ \E i \in 1..Len(tasks) :
       /\ tasks[i].st = "done"
       /\ \A c \in Checkers : ToolMissing(paths[i], c)
       /\ tasks[i].result.success
       /\ tasks[i].result.checks_run =
            <<"ruff-lint-skipped", "ruff-format-skipped", "type-check-skipped">>

\* C8 as stated: in parallel mode check_files_parallel / fix_files_parallel
\* never raise, whatever max_workers the caller passes: the call ends by
\* returning one result per path.
C8_ParallelNeverRaises ==
  parallel => /\ pc # "raised"
              /\ pc = "returned" => Len(results) = Len(paths)

\* C9: in sequential mode the task of path i+1 starts only after the task of
\* path i has completed, and the returned list holds the tasks' results in
\* input order.
C9_SequentialInOrder ==
  (~parallel /\ pc \in {"sequential", "returned", "raised"}) =>
    /\ \A i \in 1..(Len(tasks) - 1) :
         tasks[i + 1].st # "pending" => tasks[i].st = "done"
    /\ pc = "returned" =>
         /\ Len(results) = Len(paths)
         /\ \A i \in 1..Len(paths) :
              results[i].path = paths[i] /\ results[i] = tasks[i].result

C9_Witness ==
  /\ ~parallel /\ pc = "returned" /\ Len(paths) = 2
  /\ StrLess(paths[2], paths[1])
  /\ results[1].path = paths[1] /\ results[2].path = paths[2]

\* The pool size the call is specified to use.
SpecifiedPoolSize ==
  IF max_workers # None THEN max_workers[1]
  ELSE IF cpu_count = None THEN Min(Len(paths), DefaultWorkers)
  ELSE Min(Len(paths), cpu_count[1])

\* C10: in parallel mode the tasks running at the same time never exceed the
\* pool size (max_workers when given, else min(len(paths), cpu_count or 4)),
\* and at return every path has been processed exactly once.
C10_BoundedWorkers ==
  /\ pc = "pool" => Cardinality(Running(tasks)) <= SpecifiedPoolSize
  /\ (pc = "returned" /\ parallel /\ paths # <<>>) =>
       /\ Len(tasks) = Len(paths)
       /\ \A i \in 1..Len(tasks) :
            tasks[i].st = "done" =>
              tasks[i].calls = IF op = "check" THEN CheckerOrder ELSE <<"fix">>

C10_Witness ==
  /\ pc = "returned" /\ parallel /\ op = "check"
  /\ poolSize = 1 /\ Len(paths) = 2 /\ max_workers = Some(1)
  /\ \A i \in 1..2 : tasks[i].st = "done" /\ tasks[i].calls = CheckerOrder

\* C11: when check_files_parallel / fix_files_parallel returns a non-empty
\* list, no task is pending or running, every future has been consumed and
\* the list holds one result per submitted task.
C11_ReturnsAfterAllTasks ==
  (pc = "returned" /\ paths # <<>>) =>
    /\ Len(tasks) = Len(paths)
    /\ \A i \in 1..Len(tasks) : tasks[i].st \in {"done", "raised"}
    /\ parallel => collected = 1..Len(tasks)
    /\ Len(results) = Len(tasks)

C11_Witness ==
  /\ pc = "returned" /\ parallel /\ Len(tasks) = 2 /\ poolSize = 1
  /\ collected = {1, 2}
  /\ \A i \in 1..2 : tasks[i].st = "done"

\* C12 as stated: every checker call is bounded by a timeout, so a running
\* file task can always take its next step (the call it waits for returns or
\* raises), also when the external tool never exits on its own.
C12_CheckerCallsTimeOut ==
  \A i \in 1..Len(tasks) :
    tasks[i].st \in {"lint", "format", "type"} => ENABLED StepCheck(i)

\* C13: in a parallel run a step writes at most one CheckResult, that of the
\* task taking the step; the result of a completed task never changes; the
\* collection loop only appends to the list and the final sort only reorders it.
C13_ResultsOwnedByOneTask ==
  [][(pc = "pool" /\ pc' \in {"pool", "returned"}) =>
       /\ Len(tasks') = Len(tasks)
       /\ Cardinality({i \in 1..Len(tasks) : tasks'[i].result # tasks[i].result}) <= 1
       /\ \A i \in 1..Len(tasks) :
            /\ tasks'[i].result # tasks[i].result =>
                 /\ tasks[i].st \in {"pending", "lint", "format", "type", "fix"}
                 /\ tasks'[i].st # tasks[i].st
                 /\ \A j \in 1..Len(tasks) : j # i => tasks'[j] = tasks[j]
            /\ tasks[i].st = "done" => tasks'[i] = tasks[i]
       /\ IF pc' = "pool"
          THEN /\ Len(results') >= Len(results)
               /\ SubSeq(results', 1, Len(results)) = results
          ELSE \A r \in Range(results) \cup Range(results') :
                 Count(results', r) = Count(results, r)]_vars

C13_Witness ==
  /\ pc = "pool" /\ op = "check"
  /\ \E i, j \in 1..Len(tasks) :
       /\ i # j
       /\ tasks[i].st = "format" /\ tasks[j].st = "type"
       /\ tasks[i].result # tasks[j].result
       /\ tasks[i].result.issues # <<>> /\ tasks[j].result.issues # <<>>

\* Number of issues the checkers called before c have added for p.
IssuesBefore(p, c) ==
  LET n(d) == IF Outcome(p, d).kind = "ok" THEN Len(Outcome(p, d).issues) ELSE 0
  IN CASE c = "lint" -> 0
       [] c = "format" -> n("lint")
       [] c = "type" -> n("lint") + n("format")

\* C14: every issue check_file has appended from the list a checker returned
\* carries that checker's name ('ruff-lint', 'ruff-format' or 'type-check'),
\* whatever 'checker' value the raw issue map has.
C14_CheckerSetByAggregator ==
  op = "check" =>
    \A i \in 1..Len(tasks) :
      tasks[i].result # None =>
        /\ \A k \in 1..Len(tasks[i].result.issues) :
             tasks[i].result.issues[k].checker \in {"ruff-lint", "ruff-format", "type-check"}
        /\ \A n \in 1..Len(tasks[i].calls) :
             LET c == tasks[i].calls[n]
                 o == Outcome(paths[i], c)
             IN o.kind = "ok" =>
                  \A j \in 1..Len(o.issues) :
                    LET issue == tasks[i].result.issues[IssuesBefore(paths[i], c) + j]
                    IN /\ issue.checker = CheckerName(c)
                       /\ issue.message = o.issues[j].message

C14_Witness ==
  /\ op = "check"
  /\ \E i \in 1..Len(tasks) :
       /\ tasks[i].st = "done"
       /\ behav[paths[i]].type = Ok(<<TypeRaw1, TypeRaw2>>)
       /\ behav[paths[i]].lint = Ok(<<LintRaw1, LintRaw2>>)
       /\ Len(tasks[i].result.issues) >= 4
       /\ tasks[i].result.issues[Len(tasks[i].result.issues)].checker = "type-check"

\* Every CheckResult there is: those the tasks fill and those in the list.
AllResults ==
  {tasks[i].result : i \in {j \in 1..Len(tasks) : tasks[j].result # None}}
    \cup Range(results)

WithSeverity(r, S) == {k \in 1..Len(r.issues) : r.issues[k].severity \in S}

\* C15: get_issue_count_by_severity returns a map with exactly the keys error,
\* warning, info, note, whose values sum to len(issues); warning, info and
\* note count the issues of that severity, error those of severity error or of
\* a severity outside the four.
C15_SeverityCounts ==
  \A r \in AllResults :
    LET counts == get_issue_count_by_severity(r)
    IN /\ DOMAIN counts = Severities
       /\ counts.error + counts.warning + counts.info + counts.note = Len(r.issues)
       /\ \A s \in {"warning", "info", "note"} :
            counts[s] = Cardinality(WithSeverity(r, {s}))
       /\ counts.error = Cardinality({k \in 1..Len(r.issues) :
                            r.issues[k].severity \notin {"warning", "info", "note"}})

C15_Witness ==
  /\ pc = "returned" /\ report # None /\ report[1].output = "json"
  /\ \E k \in 1..Len(results) :
       /\ \E j \in 1..Len(results[k].issues) : results[k].issues[j].severity = "hint"
       /\ WithSeverity(results[k], {"error"}) = {}
       /\ report[1].body.results[k].summary.error = 1
       /\ report[1].body.results[k].summary.note = 1

\* sum over the results of get_issue_count_by_severity()[s]
RECURSIVE SumOfCounts(_, _, _)
SumOfCounts(rs, n, s) ==
  IF n = 0 THEN 0
  ELSE SumOfCounts(rs, n - 1, s) + get_issue_count_by_severity(rs[n])[s]

\* C16: the severity_counts of the JSON report summary equal, key by key, the
\* sum over the results of get_issue_count_by_severity().
C16_JsonSeverityCounts ==
  (report # None /\ report[1].output = "json") =>
    /\ DOMAIN report[1].body.summary.severity_counts = Severities
    /\ \A s \in Severities :
         report[1].body.summary.severity_counts[s] = SumOfCounts(results, Len(results), s)

C16_Witness ==
  /\ report # None /\ report[1].output = "json"
  /\ Len(results) = 2
  /\ results[1].issues # <<>> /\ results[2].issues # <<>>
  /\ report[1].body.summary.severity_counts.warning = 2
  /\ report[1].body.summary.severity_counts.error = 2

\* The (result, issue) index pairs of a list of results.
IssuePositions(rs) ==
  UNION {{<<k, j>> : j \in 1..Len(rs[k].issues)} : k \in 1..Len(rs)}

\* C17: in the JSON report summary files_checked is the number of results,
\* successful_files the number of results with success = true, total_issues
\* the number of issues of all results, which is the sum of the four
\* severity_counts.
C17_JsonSummary ==
  (report # None /\ report[1].output = "json") =>
    LET summary == report[1].body.summary
    IN /\ summary.files_checked = Len(results)
       /\ summary.successful_files =
            Cardinality({k \in 1..Len(results) : results[k].success})
       /\ summary.total_issues = Cardinality(IssuePositions(results))
       /\ summary.total_issues =
            summary.severity_counts.error + summary.severity_counts.warning
            + summary.severity_counts.info + summary.severity_counts.note

C17_Witness ==
  /\ report # None /\ report[1].output = "json"
  /\ Len(results) = 2
  /\ ~results[1].success /\ results[2].success /\ results[2].issues # <<>>
  /\ report[1].body.summary.successful_files = 1
  /\ report[1].body.summary.files_checked = 2
  /\ report[1].body.summary.total_issues = Len(results[2].issues)

\* Number of issues in the results before the k-th.
RECURSIVE IssuesInFirst(_, _)
IssuesInFirst(rs, k) ==
  IF k = 0 THEN 0 ELSE IssuesInFirst(rs, k - 1) + Len(rs[k].issues)

\* C18: the annotation report has one line per issue, result after result and
\* issue after issue; a line's type is 'error' when the issue's severity is
\* 'error' and 'warning' otherwise; with no issue at all the report is empty.
C18_GithubAnnotations ==
  (report # None /\ report[1].output = "github") =>
    LET lines == report[1].body
    IN /\ Len(lines) = IssuesInFirst(results, Len(results))
       /\ (\A k \in 1..Len(results) : results[k].issues = <<>>) => lines = <<>>
       /\ \A k \in 1..Len(results) :
            \A j \in 1..Len(results[k].issues) :
              LET line == lines[IssuesInFirst(results, k - 1) + j]
                  issue == results[k].issues[j]
              IN /\ line.message = issue.message
                 /\ line.file = issue.filename
                 /\ line.line = issue.line
                 /\ line.checker_info[1] = issue.checker
                 /\ line.type \in {"error", "warning"}
                 /\ line.type = "error" <=> issue.severity = "error"

C18_Witness ==
  /\ report # None /\ report[1].output = "github"
  /\ Len(results) = 2
  /\ results[1].issues # <<>> /\ results[2].issues # <<>>
  /\ Len(report[1].body) = Len(results[1].issues) + Len(results[2].issues)
  /\ \E n \in 1..Len(report[1].body) : report[1].body[n].type = "error"
  /\ \E k \in 1..2 : \E j \in 1..Len(results[k].issues) :
       /\ results[k].issues[j].severity = "info"
       /\ report[1].body[IssuesInFirst(results, k - 1) + j].type = "warning"

HasCheckFlag(command) == \E k \in 1..Len(command.flags) : command.flags[k] = "--check"

\* C20: every run of the formatter made for fix_files_parallel, in either
\* mode, has --check exactly when the caller's dry_run is true, and with
\* dry_run true no run rewrites a file.
C20_DryRunNeverWrites ==
  \A run \in formatRuns :
    /\ HasCheckFlag(run.command) <=> dry_run
    /\ dry_run => ~run.wrote

C20_Witness ==
  /\ op = "fix" /\ dry_run /\ pc = "returned" /\ Len(paths) = 2
  /\ \A k \in 1..2 : results[k].checks_run = <<"ruff-format-fix">>
  /\ \E run \in formatRuns : HasCheckFlag(run.command) /\ ~run.wrote

SameOutcome(a, b) ==
  a.issues = b.issues /\ a.checks_run = b.checks_run /\ a.success = b.success

\* C21: with deterministic checkers, two calls of check_file on the same path,
\* in one run or in two successive runs, return the same issues in the same
\* order with the same field values, the same checks_run and the same success.
C21_CheckFileIdempotent ==
  op = "check" =>
    \A i \in 1..Len(tasks) :
      tasks[i].st = "done" =>
        /\ \A j \in 1..Len(tasks) :
             (tasks[j].st = "done" /\ paths[j] = paths[i]) =>
               SameOutcome(tasks[i].result, tasks[j].result)
        /\ prev # None =>
             \A k \in 1..Len(prev[1].results) :
               (prev[1].results[k].path = paths[i] /\ ~IsSynthetic(prev[1].results[k])) =>
                 SameOutcome(tasks[i].result, prev[1].results[k])

C21_Witness ==
  /\ op = "check" /\ pc = "returned" /\ prev # None
  /\ Len(paths) = 2 /\ paths[1] = paths[2]
  /\ tasks[1].st = "done" /\ tasks[2].st = "done"
  /\ Len(tasks[1].result.issues) = 4
  /\ tasks[1].result.issues[1].fixable /\ ~tasks[1].result.issues[2].fixable
  /\ tasks[2].result.issues = tasks[1].result.issues
  /\ \E k \in 1..2 : ~IsSynthetic(prev[1].results[k])

\* C22: get_performance_metrics never raises ZeroDivisionError; for an empty
\* list it returns the empty dict; for a non-empty list total_files =
\* len(results), successful_files counts the results with success = true,
\* successful_files + failed_files = total_files, files_per_second is 0 when
\* the total execution time is 0, and parallel_enabled is config.parallel.
C22_MetricsWellDefined ==
  metrics # None =>
    LET m == metrics[1]
    IN IF results = <<>> THEN DOMAIN m = {}
       ELSE /\ "raised" \notin DOMAIN m
            /\ m.total_files = Len(results)
            /\ m.successful_files = Cardinality({k \in 1..Len(results) : results[k].success})
            /\ m.successful_files + m.failed_files = m.total_files
            /\ m.total_execution_time = 0 => m.files_per_second.num = 0
            /\ m.total_execution_time > 0 =>
                 /\ m.files_per_second.num = Len(results)
                 /\ m.files_per_second.den = m.total_execution_time
            /\ m.average_time_per_file.den = Len(results)
            /\ m.parallel_enabled = parallel

C22_Witness ==
  /\ metrics # None /\ Len(results) = 2 /\ parallel
  /\ ~results[1].success /\ results[2].success
  /\ metrics[1].total_execution_time = 0
  /\ metrics[1].files_per_second.num = 0
  /\ metrics[1].failed_files = 1 /\ metrics[1].successful_files = 1

\* The result fix_file returns for a run of the formatter.
FixResultFor(run, r) ==
  CASE run.proc = "missing" ->
         r.checks_run = <<"ruff-format-fix-skipped">> /\ r.success
         /\ r.error_message = None
    [] run.proc = "rc0" \/ (run.proc = "rc1" /\ HasCheckFlag(run.command)) ->
         r.checks_run = <<"ruff-format-fix">> /\ r.success /\ r.error_message = None
    [] OTHER ->
         r.checks_run = <<>> /\ ~r.success /\ r.error_message # None

\* C23: a fix_file task that calls the fixer ends by returning, never by
\* raising, having run the formatter once; its result has no issue and is:
\* checks_run = ['ruff-format-fix'] with success when the fixer returned true,
\* ['ruff-format-fix-skipped'] with success when the tool is missing, and
\* success = false with an error_message and no checks_run entry when the
\* fixer returned false or raised another error.
C23_FixFileOutcomes ==
  [][\A i \in 1..Len(tasks) :
       (Len(tasks') = Len(tasks) /\ tasks[i].st = "fix" /\ tasks'[i] # tasks[i]) =>
          LET new == formatRuns' \ formatRuns
              runs == IF new # {} THEN new
                      ELSE {run \in formatRuns : run.command.path = paths[i]}
          IN /\ tasks'[i].st = "done"
             /\ tasks'[i].calls = <<"fix">>
             /\ tasks'[i].result.issues = <<>>
             /\ tasks'[i].result.path = paths[i]
             /\ Cardinality(new) <= 1
             /\ \E run \in runs : FixResultFor(run, tasks'[i].result)]_vars

C23_Witness ==
  /\ op = "fix" /\ pc = "returned" /\ ~dry_run /\ Len(paths) = 2
  /\ results[1].checks_run = <<"ruff-format-fix-skipped">> /\ results[1].success
  /\ ~results[2].success /\ results[2].error_message = Some(<<"Ruff format fix failed">>)
  /\ results[2].checks_run = <<>>
  /\ \E run \in formatRuns : run.proc = "rc1" /\ ~run.wrote
  /\ \A i \in 1..2 : tasks[i].calls = <<"fix">>

\* Positions in the calls made so far of the checkers that raised an
\* execution error.
FailedCalls(i) == {k \in 1..Len(tasks[i].calls) : Fails(paths[i], tasks[i].calls[k])}

Max(S) == CHOOSE x \in S : \A y \in S : y <= x

\* C24: after each try block of check_file, when some checker called so far
\* raised an execution error, error_message is the prefix naming the last of
\* them in the order lint, format, type, followed by that checker's error
\* text; nothing of an earlier failure is left in it.
C24_LastFailureRetained ==
  op = "check" =>
    \A i \in 1..Len(tasks) :
      (tasks[i].result # None /\ FailedCalls(i) # {}) =>
        LET last == tasks[i].calls[Max(FailedCalls(i))]
            message == tasks[i].result.error_message
        IN /\ message = Some(<<FailurePrefix(last), Outcome(paths[i], last).err>>)
           /\ \A k \in FailedCalls(i) :
                tasks[i].calls[k] # last =>
                  /\ message[1][1] # FailurePrefix(tasks[i].calls[k])
                  /\ message[1][2] # Outcome(paths[i], tasks[i].calls[k]).err

C24_Witness ==
  /\ op = "check"
  /\ \E i \in 1..Len(tasks) :
       /\ tasks[i].st = "done"
       /\ Outcome(paths[i], "lint") = Raise("JSONDecodeError", "Invalid JSON from ruff")
       /\ Fails(paths[i], "format")
       /\ ~Fails(paths[i], "type")
       /\ tasks[i].result.error_message =
            Some(<<"Ruff format failed", "Ruff format execution failed">>)

\* C25: in a call of check_file each step calls the next checker of the order
\* lint, format, type, whatever the one before did, so that a checker is
\* called once and a failed call is not repeated; the call returns when the
\* three have been called; a task that has completed never runs again.
C25_EachCheckerOnceInOrder ==
  [][(op = "check" /\ Len(tasks') = Len(tasks)) =>
       \A i \in 1..Len(tasks) :
         LET t == tasks[i]
             u == tasks'[i]
             n == Len(t.calls)
         IN /\ t.st \in {"done", "raised"} => u = t
            /\ u.calls # t.calls =>
                 /\ n < Len(CheckerOrder)
                 /\ t.st = CheckerOrder[n + 1]
                 /\ u.calls = Append(t.calls, CheckerOrder[n + 1])
                 /\ u.st = IF n + 1 < Len(CheckerOrder) THEN CheckerOrder[n + 2] ELSE "done"
            /\ (u.st = "done" /\ t.st # "done") => u.calls = CheckerOrder
            /\ \A c \in Checkers : Count(u.calls, c) <= 1]_vars

C25_Witness ==
  /\ op = "check"
  /\ \E i \in 1..Len(tasks) :
       /\ tasks[i].st = "done"
       /\ Outcome(paths[i], "lint").kind = "ok" /\ Outcome(paths[i], "lint").issues # <<>>
       /\ Fails(paths[i], "format")
       /\ ToolMissing(paths[i], "type")
       /\ tasks[i].calls = <<"lint", "format", "type">>
       /\ tasks[i].result.checks_run = <<"ruff-lint", "type-check-skipped">>

\* Place of a checker name in the invocation order.
Rank(name) ==
  CASE name = "ruff-lint" -> 1
    [] name = "ruff-format" -> 2
    [] name = "type-check" -> 3
    [] OTHER -> 0

IssuesOfChecker(r, name) == SelectSeq(r.issues, LAMBDA x : x.checker = name)

\* C26: in every result of check_file, partial or returned, in a sequential
\* or a pool run, the ruff-lint issues come before the ruff-format issues,
\* which come before the type-check issues, and the issues of one checker
\* are those it returned, in the order in which it returned them.
C26_IssuesInCheckerOrder ==
  op = "check" =>
    /\ \A r \in AllResults :
         \A a, b \in 1..Len(r.issues) :
           a < b => Rank(r.issues[a].checker) <= Rank(r.issues[b].checker)
    /\ \A i \in 1..Len(tasks) :
         \A n \in 1..Len(tasks[i].calls) :
           LET c == tasks[i].calls[n]
               o == Outcome(paths[i], c)
               group == IssuesOfChecker(tasks[i].result, CheckerName(c))
           IN o.kind = "ok" =>
                /\ Len(group) = Len(o.issues)
                /\ \A j \in 1..Len(group) :
                     /\ group[j].message = o.issues[j].message
                     /\ group[j].severity = o.issues[j].severity

C26_Witness ==
  /\ op = "check" /\ pc = "returned" /\ parallel /\ Len(results) = 1
  /\ [k \in 1..Len(results[1].issues) |-> results[1].issues[k].checker]
       = <<"ruff-lint", "ruff-lint", "ruff-format", "type-check", "type-check">>
  /\ results[1].issues[1].message = "unused import"
  /\ results[1].issues[5].message = "possibly unbound"

C28_ColumnShownWhenPresent ==
  (report # None /\ report[1].output \in {"text", "github"} /\ results # <<>>) =>
    \A k \in 1..Len(results) :
      \A j \in 1..Len(results[k].issues) :
        LET n == IssuesInFirst(results, k - 1) + j
            shown == IF report[1].output = "text" THEN report[1].body.issues[n].column
                     ELSE report[1].body[n].col
        IN shown = results[k].issues[j].column

\* C29: every CheckResult of check_file, fix_file and the two batch calls,
\* partial or returned, has success = true exactly when error_message is
\* None; in check_file success is false from the first checker that raises
\* an execution error on, so that at return it is true exactly when none did.
C29_SuccessIffNoErrorMessage ==
  /\ \A r \in AllResults : r.success <=> r.error_message = None
  /\ op = "check" =>
       \A i \in 1..Len(tasks) :
         tasks[i].result # None =>
           /\ tasks[i].result.success <=> FailedCalls(i) = {}
           /\ tasks[i].st = "done" =>
                (tasks[i].result.success <=> \A c \in Checkers : ~Fails(paths[i], c))

C29_Witness ==
  /\ op = "check" /\ pc = "returned" /\ Len(results) = 1
  /\ Fails(paths[1], "lint")
  /\ Outcome(paths[1], "format").kind = "ok" /\ Outcome(paths[1], "type").kind = "ok"
  /\ ~results[1].success
  /\ results[1].error_message # None
  /\ results[1].checks_run = <<"ruff-format", "type-check">>

PlainEntry(c) ==
  CASE c = "lint" -> "ruff-lint" [] c = "format" -> "ruff-format" [] c = "type" -> "type-check"

\* '<name>-skipped'
SkippedEntry(c) ==
  CASE c = "lint" -> "ruff-lint-skipped"
    [] c = "format" -> "ruff-format-skipped"
    [] c = "type" -> "type-check-skipped"

\* The checks_run entry of each call made so far; <<>> for a call that raised
\* an execution error.
RECURSIVE EntriesFor(_, _)
EntriesFor(p, calls) ==
  IF calls = <<>> THEN <<>>
  ELSE LET c == calls[Len(calls)]
       IN EntriesFor(p, SubSeq(calls, 1, Len(calls) - 1)) \o
          (IF Outcome(p, c).kind = "ok" THEN <<PlainEntry(c)>>
           ELSE IF ToolMissing(p, c) THEN <<SkippedEntry(c)>>
           ELSE <<>>)

\* C30: in every result of check_file, checks_run has, in the order lint,
\* format, type, the plain name of each checker that returned and
\* '<name>-skipped' for each missing tool, nothing for a checker that raised an
\* execution error and no name twice; every issue's checker is a plain name
\* that is in checks_run, so a skipped or failed checker has no issue.
C30_ChecksRunMatchesIssues ==
  op = "check" =>
    \A i \in 1..Len(tasks) :
      tasks[i].result # None =>
        LET r == tasks[i].result
        IN /\ r.checks_run = EntriesFor(paths[i], tasks[i].calls)
           /\ \A a, b \in 1..Len(r.checks_run) : r.checks_run[a] = r.checks_run[b] => a = b
           /\ \A k \in 1..Len(r.issues) :
                /\ r.issues[k].checker \in {PlainEntry(c) : c \in Checkers}
                /\ \E a \in 1..Len(r.checks_run) : r.checks_run[a] = r.issues[k].checker
           /\ \A n \in 1..Len(tasks[i].calls) :
                Outcome(paths[i], tasks[i].calls[n]).kind # "ok" =>
                  IssuesOf(r, PlainEntry(tasks[i].calls[n])) = {}

C30_Witness ==
  /\ op = "check"
  /\ \E i \in 1..Len(tasks) :
       /\ tasks[i].st = "done"
       /\ ToolMissing(paths[i], "format") /\ Fails(paths[i], "type")
       /\ tasks[i].result.checks_run = <<"ruff-lint", "ruff-format-skipped">>
       /\ Len(tasks[i].result.issues) = 2
       /\ \A k \in 1..2 : tasks[i].result.issues[k].checker = "ruff-lint"

====
